---- MODULE Spec2Model ----
(***************************************************************************)
(* Incremental dependency graph of vscode-dependency-dependent.            *)
(*                                                                         *)
(* DependencyGraph (src/src/core/debounce.ts, lines 86-345) keeps two      *)
(* adjacency maps, fills them with a batched bulk scan and patches them    *)
(* one file at a time.  DepService (src/src/DepService.ts) owns the graph  *)
(* of a workspace, answers queries and forwards file-watcher               *)
(* notifications.  TreeSitterParser (src/unnamed/part_005) loads the       *)
(* grammars and keeps the last tree parsed for each language.  Every await *)
(* of the source is a step boundary: the code between two awaits is one    *)
(* atomic action.                                                          *)
(***************************************************************************)
EXTENDS Integers, Sequences, FiniteSets, TLC

(***************************************************************************)
(* Bounds of the model.                                                    *)
(***************************************************************************)
\* files of the workspace universe, named 1..NumFiles
NumFiles == 11
\* disk modifications made by the environment
MaxEdits == 2
\* getGraphForWorkspace callers waiting at the same time
MaxCallers == 2
\* extractImports calls made on the parser
MaxCalls == 3

\* const CONCURRENCY = 10 of _doInitialize
CONCURRENCY == 10

Files == 1..NumFiles
\* the files the environment edits (the others never change)
WsFiles == 1..2
\* ids of the promises initialize hands out
PromiseIds == 1..MaxCallers
\* slots for the processFile calls in flight
Pids == 1..(2 * NumFiles + MaxEdits)
Root == "ws"
NULL == 0
NoFile == 0

(***************************************************************************)
(* File contents.  A content is what the pipeline can observe of a text:   *)
(* the import specifiers extractImports returns for it, in source order,   *)
(* and whether querying its tree throws.                                   *)
(***************************************************************************)
Absent == [exists |-> FALSE, imports |-> <<>>, crash |-> FALSE]
Text(imports) == [exists |-> TRUE, imports |-> imports, crash |-> FALSE]
cNone == Text(<<>>)
cB == Text(<<"./b">>)
cC == Text(<<"./c">>)
cBC == Text(<<"./b", "./c">>)
cPkgC == Text(<<"lodash", "./c">>)
cBad == [exists |-> TRUE, imports |-> <<>>, crash |-> TRUE]
\* the contents the environment writes
Contents == {cB, cPkgC, cBad}

\* the path the resolver's alias and extension rules lead to for a specifier
\* (NoFile for a package that is not part of the workspace)
Target(request) ==
  CASE request = "./a" -> 1
    [] request = "./b" -> 2
    [] request = "./c" -> 3
    [] OTHER -> NoFile

(***************************************************************************)
(* Map helpers (JavaScript Map with Set values).                           *)
(***************************************************************************)
MapGet(m, k) == IF k \in DOMAIN m THEN m[k] ELSE {}
MapSet(m, k, v) == [x \in (DOMAIN m) \cup {k} |-> IF x = k THEN v ELSE m[x]]
MapDelete(m, k) == [x \in (DOMAIN m) \ {k} |-> m[x]]
EmptyMap == [x \in {} |-> {}]

RECURSIVE SortedSeq(_)
SortedSeq(S) ==
  IF S = {} THEN <<>>
  ELSE LET m == CHOOSE x \in S : \A y \in S : x <= y
       IN <<m>> \o SortedSeq(S \ {m})

RECURSIVE Flat(_)
Flat(ss) == IF ss = <<>> THEN <<>> ELSE Head(ss) \o Flat(Tail(ss))

SeqRange(s) == {s[k] : k \in 1..Len(s)}

VARIABLES
  disk,           \* file -> content on disk (Absent when the file is missing)
  events,         \* file-watcher notifications not yet handled, in arrival order
  edits,          \* number of disk modifications made so far
  graphs,         \* DepService.graphs: the workspace roots that have a graph
  dependencyMap,  \* DependencyGraph.dependencyMap
  dependentMap,   \* DependencyGraph.dependentMap
  resolver,       \* DependencyGraph.resolver: whether it is set, and its alias table
  initialized,    \* DependencyGraph.initialized
  initPromise,    \* DependencyGraph.initPromise: NULL or the id of the promise
  promises,       \* number of _doInitialize runs (ids of the promises they returned)
  scan,           \* position of _doInitialize: phase, allFiles, loop index i
  scanCount,      \* file -> number of processFile calls the bulk scan made for it
  pipes,          \* processFile calls suspended at an await
  callers,        \* promise -> number of getGraphForWorkspace callers awaiting it
  lastNote,       \* file -> the last notification accepted for it
  hist,           \* kinds of event that have happened so far
  last,           \* the operation that ended in the latest step
  snap,           \* the Graph Store as the first of two runs in a row left it
  parserInstance, \* TreeSitterParser.instance is the parser object of these fields
  parserInitialized, \* TreeSitterParser.initialized
  parsers,        \* TreeSitterParser.parsers: the languages that have a parser
  parserLoading,  \* TreeSitterParser.parserLoading: language -> pending load
  loads,          \* the _loadParser calls made so far, in order
  treeCache,      \* TreeSitterParser.treeCache: language -> {hash, tree}
  trees,          \* the trees parser.parse has returned, in order
  calls,          \* the extractImports calls made so far, in order
  microtasks,     \* continuations ready to run, first in first out
  parseLog,       \* what parseWithCache has returned so far, in order
  retired,        \* the graphs a forced re-scan has replaced, oldest first
  created,        \* number of DependencyGraph objects DepService has made
  refreshes,      \* the updateActiveWorkspaceDepMap calls: graph found, graph made, outcome
  reads           \* the graphs the queries have read: id and isInitialized() at the read

graphVars == <<disk, events, edits, graphs, dependencyMap, dependentMap, resolver,
               initialized, initPromise, promises, scan, scanCount, pipes, callers,
               lastNote, hist, last>>

parserVars == <<parserInstance, parserInitialized, parsers, parserLoading, loads,
                treeCache, trees, calls, microtasks, parseLog>>

serviceVars == <<retired, created, refreshes, reads>>

vars == <<graphVars, snap, parserVars, serviceVars>>

(***************************************************************************)
(* Graph Store: the two maps as one value G.                               *)
(***************************************************************************)
Graph(dep, dpt) == [dependencyMap |-> dep, dependentMap |-> dpt]

\* the files B with f in dependentMap[B]
DependentsHolding(dpt, f) == {b \in DOMAIN dpt : f \in dpt[b]}

\* faulty variant: forgets the reverse edges
removeFileEdges_keepReverse(G, filePath) ==
  Graph(MapDelete(G.dependencyMap, filePath), G.dependentMap)

\* faulty variant: the whole set of each former dependency is dropped
removeFileEdges_dropSets(G, filePath) ==
  LET oldDeps == MapGet(G.dependencyMap, filePath)
  IN Graph(MapDelete(G.dependencyMap, filePath),
           [b \in (DOMAIN G.dependentMap) \ oldDeps |-> G.dependentMap[b]])

\* faulty variant: a set that has become empty keeps its key
removeFileEdges_keepEmpty(G, filePath) ==
  LET oldDeps == MapGet(G.dependencyMap, filePath)
  IN Graph(MapDelete(G.dependencyMap, filePath),
           [b \in DOMAIN G.dependentMap |->
              IF b \in oldDeps THEN G.dependentMap[b] \ {filePath}
              ELSE G.dependentMap[b]])

removeFileEdges(G, filePath) ==
  LET oldDeps == MapGet(G.dependencyMap, filePath)
      touched == oldDeps \cap DOMAIN G.dependentMap
      shrunk == [b \in DOMAIN G.dependentMap |->
                   IF b \in touched THEN G.dependentMap[b] \ {filePath}
                   ELSE G.dependentMap[b]]
      kept == {b \in DOMAIN shrunk : b \notin touched \/ shrunk[b] # {}}
  IN Graph(MapDelete(G.dependencyMap, filePath), [b \in kept |-> shrunk[b]])

\* faulty variant: the deleted file is also taken out of its importers' sets
removeFile_editsImporters(G, filePath) ==
  LET G1 == removeFileEdges(G, filePath)
  IN Graph([x \in DOMAIN G1.dependencyMap |-> G1.dependencyMap[x] \ {filePath}],
           MapDelete(G1.dependentMap, filePath))

removeFile(G, filePath) ==
  LET G1 == removeFileEdges(G, filePath)
  IN Graph(G1.dependencyMap, MapDelete(G1.dependentMap, filePath))

\* faulty variant: only the outgoing edges are dropped
ReadFailed_edgesOnly(G, filePath) == removeFileEdges(G, filePath)

\* lines 216-222: readFileSync threw, the catch block calls removeFile and returns
ReadFailed(G, filePath) == removeFile(G, filePath)

\* faulty variant: the reverse edges are not written
setEdges_noReverse(G, filePath, resolvedDeps) ==
  Graph(MapSet(G.dependencyMap, filePath, resolvedDeps), G.dependentMap)

\* faulty variant: an importer that is already listed is taken off the list
setEdges_toggle(G, filePath, resolvedDeps) ==
  Graph(MapSet(G.dependencyMap, filePath, resolvedDeps),
        [b \in (DOMAIN G.dependentMap) \cup resolvedDeps |->
           IF b \in resolvedDeps
           THEN IF filePath \in MapGet(G.dependentMap, b)
                THEN G.dependentMap[b] \ {filePath}
                ELSE MapGet(G.dependentMap, b) \cup {filePath}
           ELSE G.dependentMap[b]])

\* lines 249-260 of processFile: install the new edge set of filePath
setEdges(G, filePath, resolvedDeps) ==
  Graph(MapSet(G.dependencyMap, filePath, resolvedDeps),
        [b \in (DOMAIN G.dependentMap) \cup resolvedDeps |->
           IF b \in resolvedDeps
           THEN MapGet(G.dependentMap, b) \cup {filePath}
           ELSE G.dependentMap[b]])

\* lines 299-322: null without a resolver or when the resolver finds no file
resolvePath(request) ==
  IF ~resolver.set THEN NoFile
  ELSE IF Target(request) # NoFile /\ disk[Target(request)].exists
       THEN Target(request)
       ELSE NoFile

\* lines 326-332: the public queries of the graph
getDependencies(filePath) == MapGet(dependencyMap, filePath)
getDependents(filePath) == MapGet(dependentMap, filePath)

\* the files a list of import sources resolves to when all of them exist
RECURSIVE ResolveAll(_)
ResolveAll(importSources) ==
  IF importSources = <<>> THEN {}
  ELSE LET r == Target(Head(importSources))
       IN (IF r = NoFile THEN {} ELSE {r}) \cup ResolveAll(Tail(importSources))

(***************************************************************************)
(* processFile pipelines.  A pipeline is a processFile call that has       *)
(* passed its synchronous prefix (read, removeFileEdges) and is suspended  *)
(* at the await of extractImports or of a resolvePath.                     *)
(***************************************************************************)
FreeSlot(ps) == CHOOSE p \in Pids \ DOMAIN ps : \A q \in Pids \ DOMAIN ps : p <= q
OnFile(ps, f) == {p \in DOMAIN ps : ps[p].file = f}
IncInFlight(ps) == {p \in DOMAIN ps : ps[p].origin = "inc"}
ScanInFlight(ps) == {p \in DOMAIN ps : ps[p].origin = "scan"}
NoPipes == [p \in {} |-> 0]

World(G, ps, h) == [G |-> G, pipes |-> ps, hist |-> h]

\* lines 211-230: the part of processFile(f) that runs before its first await
StartProcess(W, f, origin, batch) ==
  LET content == disk[f]
      G == W.G
  IN IF ~content.exists
     THEN \* readFileSync threw: the file is treated as deleted
          World(ReadFailed(G, f), W.pipes, W.hist \cup {"removeFile"})
     ELSE LET p == FreeSlot(W.pipes)
              others == OnFile(W.pipes, f)
              rec == [file |-> f, pc |-> "extract", content |-> content,
                      idx |-> 0, resolvedDeps |-> {},
                      origin |-> origin, batch |-> batch,
                      oldHas |-> f \in DOMAIN G.dependencyMap,
                      oldDeps |-> MapGet(G.dependencyMap, f),
                      oldIn |-> DependentsHolding(G.dependentMap, f),
                      peer |-> IF others = {} THEN "none" ELSE "inflight",
                      peerContent |-> IF others = {} THEN Absent
                                      ELSE W.pipes[CHOOSE q \in others : TRUE].content]
          IN World(removeFileEdges(G, f),
                   [q \in (DOMAIN W.pipes) \cup {p} |->
                      IF q = p THEN rec
                      ELSE IF q \in others
                           THEN [W.pipes[q] EXCEPT !.peer = "inflight",
                                                   !.peerContent = content]
                           ELSE W.pipes[q]],
                   IF others = {} THEN W.hist ELSE W.hist \cup {"overlap"})

\* pipeline p has returned: drop it and tell the overlapping pipelines of its file
EndPipe(ps, p) ==
  [q \in (DOMAIN ps) \ {p} |->
     IF ps[q].file = ps[p].file /\ ps[q].peer = "inflight"
        /\ ps[q].peerContent = ps[p].content
     THEN [ps[q] EXCEPT !.peer = "finished"]
     ELSE ps[q]]

NoLast == [op |-> "none", file |-> NoFile, content |-> Absent, oldHas |-> FALSE,
           oldDeps |-> {}, oldIn |-> {}, peer |-> "none", peerContent |-> Absent]
LastOf(op, rec) == [op |-> op, file |-> rec.file, content |-> rec.content,
                    oldHas |-> rec.oldHas, oldDeps |-> rec.oldDeps,
                    oldIn |-> rec.oldIn, peer |-> rec.peer,
                    peerContent |-> rec.peerContent]
LastOp(op, f) == [NoLast EXCEPT !.op = op, !.file = f]

Install(W) ==
  /\ dependencyMap' = W.G.dependencyMap
  /\ dependentMap' = W.G.dependentMap
  /\ pipes' = W.pipes
  /\ hist' = W.hist

Now == World(Graph(dependencyMap, dependentMap), pipes, hist)

\* lines 249-260 reached by pipeline p with the set resolvedDeps
Commit(p, resolvedDeps) ==
  /\ Install(World(setEdges(Graph(dependencyMap, dependentMap), pipes[p].file, resolvedDeps),
                   EndPipe(pipes, p), hist))
  /\ last' = LastOf("commit", pipes[p])

\* faulty variant: the error leaves processFile
ExtractThrows_rethrown == "rejected"

\* lines 231-235: the catch block logs the error and processFile returns
ExtractThrows == "threw"

\* lines 228-235: extractImports settles
ExtractDone(p) ==
  /\ p \in DOMAIN pipes
  /\ pipes[p].pc = "extract"
  /\ LET importSources == pipes[p].content.imports
     IN IF pipes[p].content.crash
        THEN \* caught at line 231: processFile returns
             /\ pipes' = EndPipe(pipes, p)
             /\ last' = LastOf(ExtractThrows, pipes[p])
             /\ UNCHANGED <<dependencyMap, dependentMap, hist>>
        ELSE IF importSources = <<>>
        THEN Commit(p, {})
        ELSE /\ pipes' = [pipes EXCEPT ![p].pc = "resolve", ![p].idx = 1]
             /\ last' = NoLast
             /\ UNCHANGED <<dependencyMap, dependentMap, hist>>
  /\ UNCHANGED <<disk, events, edits, graphs, resolver, initialized, initPromise,
                 promises, scan, scanCount, callers, lastNote>>

\* lines 239-247: one resolvePath settles; after the last one lines 249-260 run
ResolveDone(p) ==
  /\ p \in DOMAIN pipes
  /\ pipes[p].pc = "resolve"
  /\ LET importSources == pipes[p].content.imports
         resolved == resolvePath(importSources[pipes[p].idx])
         resolvedDeps == IF resolved # NoFile
                         THEN pipes[p].resolvedDeps \cup {resolved}
                         ELSE pipes[p].resolvedDeps
     IN IF pipes[p].idx = Len(importSources)
        THEN Commit(p, resolvedDeps)
        ELSE /\ pipes' = [pipes EXCEPT ![p].idx = @ + 1,
                                       ![p].resolvedDeps = resolvedDeps]
             /\ last' = NoLast
             /\ UNCHANGED <<dependencyMap, dependentMap, hist>>
  /\ UNCHANGED <<disk, events, edits, graphs, resolver, initialized, initPromise,
                 promises, scan, scanCount, callers, lastNote>>

(***************************************************************************)
(* Scan Scheduler: initialize / _doInitialize.                             *)
(***************************************************************************)
\* the files each configured entry pattern matches
EntryPatterns == <<Files, {1}>>

\* glob(pattern): the matching files that exist, one list per pattern
GlobResults == [k \in 1..Len(EntryPatterns) |->
                  SortedSeq({f \in EntryPatterns[k] : disk[f].exists})]

\* [...new Set(s)]: the first occurrence of every element, in order
RECURSIVE Dedup(_)
Dedup(s) ==
  IF s = <<>> THEN <<>>
  ELSE LET d == Dedup(SubSeq(s, 1, Len(s) - 1))
           x == s[Len(s)]
       IN IF x \in SeqRange(d) THEN d ELSE Append(d, x)

Min(a, b) == IF a <= b THEN a ELSE b

\* allFiles.slice(i, i + CONCURRENCY), with indices counted from 1
Batch(allFiles, i) == SubSeq(allFiles, i, Min(i + CONCURRENCY - 1, Len(allFiles)))

\* batch.map(filePath => this.processFile(filePath)): every call runs to its first await
RECURSIVE StartBatch(_, _, _)
StartBatch(W, batch, i) ==
  IF batch = <<>> THEN W
  ELSE StartBatch(StartProcess(W, Head(batch), "scan", i), Tail(batch), i)

RECURSIVE CountIn(_, _)
CountIn(s, x) ==
  IF s = <<>> THEN 0
  ELSE (IF Head(s) = x THEN 1 ELSE 0) + CountIn(Tail(s), x)

\* faulty variant: completion leaves the in-flight handle in place
DoInitializeEnd_keepPromise == [initialized |-> TRUE, initPromise |-> initPromise]

\* faulty variant: the end of the scan does not set the flag
DoInitializeEnd_notInitialized == [initialized |-> FALSE, initPromise |-> NULL]

\* lines 203-204
DoInitializeEnd == [initialized |-> TRUE, initPromise |-> NULL]

\* lines 187-204 from the loop test at index i up to the next await
RunLoop(allFiles, i) ==
  IF i <= Len(allFiles)
  THEN /\ Install(StartBatch(Now, Batch(allFiles, i), i))
       /\ scanCount' = [f \in Files |-> scanCount[f] + CountIn(Batch(allFiles, i), f)]
       /\ scan' = [scan EXCEPT !.phase = "batch", !.allFiles = allFiles, !.i = i]
       /\ UNCHANGED <<initialized, initPromise>>
  ELSE /\ initialized' = DoInitializeEnd.initialized
       /\ initPromise' = DoInitializeEnd.initPromise
       /\ scan' = [scan EXCEPT !.phase = "complete", !.allFiles = allFiles, !.i = i]
       /\ UNCHANGED <<dependencyMap, dependentMap, pipes, hist, scanCount>>

\* faulty variant: a pending scan is not noticed
InitPending_never == FALSE

\* line 157
InitPending == initPromise # NULL

IdleScan == [phase |-> "idle", allFiles |-> <<>>, i |-> 0, promise |-> NULL]

Waiting == {p \in PromiseIds : callers[p] > 0}

RECURSIVE Sum(_, _)
Sum(f, S) ==
  IF S = {} THEN 0
  ELSE LET x == CHOOSE y \in S : TRUE IN f[x] + Sum(f, S \ {x})

\* faulty variant: a graph is returned whatever its state
GraphReady_anyGraph == Root \in graphs

\* DepService line 188: graph && graph.isInitialized()
GraphReady == Root \in graphs /\ initialized

\* getGraphForWorkspace (DepService lines 179-202) up to its await, with the
\* initialize call (lines 156-163) and _doInitialize up to its first await
Query ==
  /\ IF GraphReady
     THEN UNCHANGED <<graphs, initPromise, promises, scan, callers>>
     ELSE /\ Sum(callers, PromiseIds) < MaxCallers
          /\ graphs' = graphs \cup {Root}
          /\ IF InitPending
             THEN /\ callers' = [callers EXCEPT ![initPromise] = @ + 1]
                  /\ UNCHANGED <<initPromise, promises, scan>>
             ELSE /\ promises < MaxCallers
                  /\ promises' = promises + 1
                  /\ initPromise' = promises + 1
                  /\ scan' = [phase |-> "resolver", allFiles |-> <<>>, i |-> 0,
                              promise |-> promises + 1]
                  /\ callers' = [callers EXCEPT ![promises + 1] = @ + 1]
  /\ last' = NoLast
  /\ UNCHANGED <<disk, events, edits, dependencyMap, dependentMap, resolver,
                 initialized, scanCount, pipes, lastNote, hist>>

\* alias tables: sets of pairs of a prefix and the directory it stands for
NoAliases == {}
DefaultAlias == {<<"@", "<workspaceRoot>/src">>}
CustomAlias == {<<"~", "<workspaceRoot>/lib">>}

\* what loading the build configuration can come to: getWebpackConfigFn
\* returns undefined (DepService lines 244-266), require throws (line 270),
\* the function throws, or it returns a result with or without resolve and
\* with or without resolve.alias
Config(load, call, hasResolve, hasAlias, alias) ==
  [load |-> load, call |-> call, hasResolve |-> hasResolve, hasAlias |-> hasAlias,
   alias |-> alias]
cfgNoFile == Config("undefined", "none", FALSE, FALSE, NoAliases)
cfgLoadThrows == Config("throws", "none", FALSE, FALSE, NoAliases)
cfgCallThrows == Config("function", "throws", FALSE, FALSE, NoAliases)
cfgNoResolve == Config("function", "returns", FALSE, FALSE, NoAliases)
cfgNoAlias == Config("function", "returns", TRUE, FALSE, NoAliases)
cfgEmptyAlias == Config("function", "returns", TRUE, TRUE, NoAliases)
cfgAlias == Config("function", "returns", TRUE, TRUE, CustomAlias)
ConfigOutcomes == {cfgNoFile, cfgLoadThrows, cfgCallThrows, cfgNoResolve, cfgNoAlias,
                   cfgEmptyAlias, cfgAlias}

\* lines 113-134: resolveConfig.alias when the try block is left
ConfigAlias(cfg) ==
  IF cfg.load = "function" /\ cfg.call = "returns" /\ cfg.hasResolve /\ cfg.hasAlias
  THEN cfg.alias
  ELSE NoAliases

\* faulty variant: an empty alias table is handed to the resolver
AliasFallback_none(alias) == alias

\* lines 136-141: the default alias fallback
AliasFallback(alias) == IF alias = NoAliases THEN DefaultAlias ELSE alias

NoResolver == [set |-> FALSE, alias |-> NoAliases, config |-> cfgNoFile]

\* lines 143-149: the resolver, with the configuration outcome it was made from
createResolver(cfg) ==
  [set |-> TRUE, alias |-> AliasFallback(ConfigAlias(cfg)), config |-> cfg]

\* line 166: initResolver has returned (it catches every configuration error)
InitResolverDone(cfg) ==
  /\ scan.phase = "resolver"
  /\ resolver' = createResolver(cfg)
  /\ scan' = [scan EXCEPT !.phase = "glob"]
  /\ last' = NoLast
  /\ UNCHANGED <<disk, events, edits, graphs, dependencyMap, dependentMap,
                 initialized, initPromise, promises, scanCount, pipes, callers,
                 lastNote, hist>>

\* lines 177-189: the globs settle, the file list is built and the first batch starts
GlobDone ==
  /\ scan.phase = "glob"
  /\ RunLoop(Dedup(Flat(GlobResults)), 1)
  /\ last' = NoLast
  /\ UNCHANGED <<disk, events, edits, graphs, resolver, promises, callers, lastNote>>

\* line 177: a glob rejects, _doInitialize rejects with it
GlobReject ==
  /\ scan.phase = "glob"
  /\ scan' = [scan EXCEPT !.phase = "rejected"]
  /\ last' = NoLast
  /\ UNCHANGED <<disk, events, edits, graphs, dependencyMap, dependentMap, resolver,
                 initialized, initPromise, promises, scanCount, pipes, callers,
                 lastNote, hist>>

\* faulty variant: the loop does not wait for the batch
BatchSettled_noWait == TRUE

\* line 189: every processFile promise of the current batch has settled
BatchSettled == \A p \in ScanInFlight(pipes) : pipes[p].batch # scan.i

\* lines 189-198: Promise.all settles; the loop goes on with the next batch or ends
BatchDone ==
  /\ scan.phase = "batch"
  /\ BatchSettled
  /\ RunLoop(scan.allFiles, scan.i + CONCURRENCY)
  /\ last' = NoLast
  /\ UNCHANGED <<disk, events, edits, graphs, resolver, promises, callers, lastNote>>

\* DepService lines 202-204: the initialize promise a caller awaits has settled
CallerResume ==
  /\ scan.phase \in {"complete", "rejected"}
  /\ scan.promise \in Waiting
  /\ callers' = [callers EXCEPT ![scan.promise] = @ - 1]
  /\ last' = NoLast
  /\ UNCHANGED <<disk, events, edits, graphs, dependencyMap, dependentMap, resolver,
                 initialized, initPromise, promises, scan, scanCount, pipes,
                 lastNote, hist>>

(***************************************************************************)
(* DepService over time: the registry and the graphs it has replaced.  The *)
(* fields of the graph the registry holds are the variables above; a graph *)
(* a forced re-scan has replaced is kept as a record in retired, where its *)
(* scan and its pipelines go on.  The continuations of a settled promise   *)
(* run before the next handler or I/O completion.                          *)
(***************************************************************************)
\* the graph of the variables, as a record; atDiscard and busy keep what the
\* maps were, and whether work was in flight, when the record was made
Current ==
  [id |-> created, G |-> Graph(dependencyMap, dependentMap), resolver |-> resolver,
   initialized |-> initialized, initPromise |-> initPromise, scan |-> scan,
   pipes |-> pipes, atDiscard |-> Graph(dependencyMap, dependentMap),
   busy |-> (pipes # NoPipes \/ scan.phase \in {"resolver", "glob", "batch"})]

\* DependencyGraph.dispose, called on line 113, is not part of the sources:
\* the old instance is discarded, not mutated in place
dispose(R) == R

\* faulty variant: the entry of the old graph stays in the registry
RegistryAfterDelete_kept == graphs

\* line 115: this.graphs.delete(fsPath)
RegistryAfterDelete == graphs \ {Root}

\* faulty variant: the registry is not consulted before a graph is made
HasGraph_never == FALSE

\* lines 187 and 192: the registry holds a graph for the root
HasGraph == Root \in graphs

\* the promises that have settled
Settled ==
  {scan.promise : x \in {y \in {1} : scan.phase \in {"complete", "rejected"}}}
  \cup {retired[k].scan.promise :
          k \in {j \in 1..Len(retired) : retired[j].scan.phase \in {"complete", "rejected"}}}

\* no continuation is ready to run
NoneReady == Waiting \cap Settled = {}

\* a forced re-scan has not returned yet
Rescanning == \E r \in refreshes : r.state = "waiting"

\* a caller that awaits the scan of graph id goes on when the promise has
\* settled as phase says: a rejection is thrown on to the caller's caller;
\* otherwise the forced re-scan that made the graph returns (line 118) and
\* notes isInitialized() of its graph (own), the graph the registry holds
\* (entry) and isInitialized() of that one (ready), or a query reads the graph
\* (lines 53, 69, 80 and 91) whose isInitialized() is init
Resumed(id, init, phase) ==
  LET mine == {r \in refreshes : r.new = id /\ r.state = "waiting"}
  IN IF mine # {}
     THEN LET r == CHOOSE x \in mine : TRUE
          IN /\ refreshes' = (refreshes \ {r}) \cup
                   {IF phase = "rejected" THEN [r EXCEPT !.state = "rejected"]
                    ELSE [r EXCEPT !.state = "returned", !.own = init,
                                   !.entry = created, !.ready = initialized]}
             /\ reads' = reads
     ELSE /\ reads' = IF phase = "rejected" THEN reads
                      ELSE reads \cup {[id |-> id, initialized |-> init,
                                         rescan |-> Rescanning]}
          /\ refreshes' = refreshes

\* a query (lines 40-92): getGraphForWorkspace up to its return or its await
ServiceQuery ==
  /\ NoneReady
  /\ Query
  /\ created' = IF HasGraph THEN created ELSE created + 1
  /\ reads' = IF GraphReady
              THEN reads \cup {[id |-> created, initialized |-> initialized,
                                 rescan |-> Rescanning]}
              ELSE reads
  /\ UNCHANGED <<retired, refreshes>>

\* updateActiveWorkspaceDepMap (lines 98-116) called with an active editor in
\* the workspace, with getGraphForWorkspace (lines 187-202), initialize and
\* _doInitialize up to its first await
Refresh ==
  /\ NoneReady
  /\ IF Root \in RegistryAfterDelete
     THEN \* line 187 finds a graph
          /\ Query
          /\ refreshes' = refreshes \cup
               {[old |-> created, new |-> created,
                 state |-> IF GraphReady THEN "returned" ELSE "waiting",
                 own |-> initialized, entry |-> created, ready |-> initialized]}
          /\ UNCHANGED <<retired, created, reads>>
     ELSE \* lines 192-194: a new graph is made and registered, and scanned
          /\ promises < MaxCallers
          /\ Sum(callers, PromiseIds) < MaxCallers
          /\ retired' = IF Root \in graphs THEN Append(retired, dispose(Current))
                        ELSE retired
          /\ created' = created + 1
          /\ graphs' = RegistryAfterDelete \cup {Root}
          /\ dependencyMap' = EmptyMap
          /\ dependentMap' = EmptyMap
          /\ resolver' = NoResolver
          /\ initialized' = FALSE
          /\ pipes' = NoPipes
          /\ promises' = promises + 1
          /\ initPromise' = promises + 1
          /\ scan' = [phase |-> "resolver", allFiles |-> <<>>, i |-> 0,
                      promise |-> promises + 1]
          /\ callers' = [callers EXCEPT ![promises + 1] = @ + 1]
          /\ scanCount' = [f \in Files |-> 0]
          /\ hist' = {}
          /\ last' = NoLast
          /\ refreshes' = refreshes \cup
               {[old |-> IF Root \in graphs THEN created ELSE 0, new |-> created + 1,
                 state |-> "waiting", own |-> FALSE, entry |-> 0, ready |-> FALSE]}
          /\ UNCHANGED <<disk, events, edits, lastNote, reads>>

\* lines 202-204 and the caller's own await: a caller of the registry's graph goes on
ServiceCallerResume ==
  /\ CallerResume
  /\ Resumed(created, initialized, scan.phase)
  /\ UNCHANGED <<retired, created>>

(***************************************************************************)
(* The steps of a replaced graph R: the steps above, on the record.        *)
(***************************************************************************)
\* resolvePath (lines 299-322) with the resolver of R
resolvePathOf(R, request) ==
  IF ~R.resolver.set THEN NoFile
  ELSE IF Target(request) # NoFile /\ disk[Target(request)].exists
       THEN Target(request)
       ELSE NoFile

\* lines 249-260 reached by pipeline p of R
CommitOf(R, p, resolvedDeps) ==
  [R EXCEPT !.G = setEdges(R.G, R.pipes[p].file, resolvedDeps),
            !.pipes = EndPipe(R.pipes, p)]

\* lines 228-235 for pipeline p of R
ExtractDoneOf(R, p) ==
  IF R.pipes[p].content.crash THEN [R EXCEPT !.pipes = EndPipe(R.pipes, p)]
  ELSE IF R.pipes[p].content.imports = <<>> THEN CommitOf(R, p, {})
  ELSE [R EXCEPT !.pipes = [R.pipes EXCEPT ![p].pc = "resolve", ![p].idx = 1]]

\* lines 239-247 for pipeline p of R
ResolveDoneOf(R, p) ==
  LET importSources == R.pipes[p].content.imports
      resolved == resolvePathOf(R, importSources[R.pipes[p].idx])
      resolvedDeps == IF resolved # NoFile
                      THEN R.pipes[p].resolvedDeps \cup {resolved}
                      ELSE R.pipes[p].resolvedDeps
  IN IF R.pipes[p].idx = Len(importSources)
     THEN CommitOf(R, p, resolvedDeps)
     ELSE [R EXCEPT !.pipes = [R.pipes EXCEPT ![p].idx = @ + 1,
                                              ![p].resolvedDeps = resolvedDeps]]

\* lines 187-204 of R from the loop test at index i up to the next await
RunLoopOf(R, allFiles, i) ==
  IF i <= Len(allFiles)
  THEN LET W == StartBatch(World(R.G, R.pipes, {}), Batch(allFiles, i), i)
       IN [R EXCEPT !.G = W.G, !.pipes = W.pipes,
                    !.scan = [@ EXCEPT !.phase = "batch", !.allFiles = allFiles,
                                       !.i = i]]
  ELSE [R EXCEPT !.initialized = DoInitializeEnd.initialized,
                 !.initPromise = DoInitializeEnd.initPromise,
                 !.scan = [@ EXCEPT !.phase = "complete", !.allFiles = allFiles,
                                    !.i = i]]

\* a step of the replaced graph k leaves the registry's graph alone
Retire(k, R) ==
  /\ retired' = [retired EXCEPT ![k] = R]
  /\ UNCHANGED <<graphVars, created, refreshes, reads>>

RetiredInitResolverDone(k, cfg) ==
  /\ retired[k].scan.phase = "resolver"
  /\ Retire(k, [retired[k] EXCEPT !.resolver = createResolver(cfg),
                                  !.scan = [@ EXCEPT !.phase = "glob"]])

RetiredGlobDone(k) ==
  /\ retired[k].scan.phase = "glob"
  /\ Retire(k, RunLoopOf(retired[k], Dedup(Flat(GlobResults)), 1))

RetiredGlobReject(k) ==
  /\ retired[k].scan.phase = "glob"
  /\ Retire(k, [retired[k] EXCEPT !.scan = [@ EXCEPT !.phase = "rejected"]])

RetiredBatchDone(k) ==
  /\ retired[k].scan.phase = "batch"
  /\ \A p \in ScanInFlight(retired[k].pipes) :
        retired[k].pipes[p].batch # retired[k].scan.i
  /\ Retire(k, RunLoopOf(retired[k], retired[k].scan.allFiles,
                         retired[k].scan.i + CONCURRENCY))

RetiredExtractDone(k, p) ==
  /\ p \in DOMAIN retired[k].pipes
  /\ retired[k].pipes[p].pc = "extract"
  /\ Retire(k, ExtractDoneOf(retired[k], p))

RetiredResolveDone(k, p) ==
  /\ p \in DOMAIN retired[k].pipes
  /\ retired[k].pipes[p].pc = "resolve"
  /\ Retire(k, ResolveDoneOf(retired[k], p))

\* DepService lines 202-204: a caller that awaits the scan of the replaced graph k
RetiredCallerResume(k) ==
  /\ retired[k].scan.phase \in {"complete", "rejected"}
  /\ retired[k].scan.promise \in Waiting
  /\ callers' = [callers EXCEPT ![retired[k].scan.promise] = @ - 1]
  /\ last' = NoLast
  /\ Resumed(retired[k].id, retired[k].initialized, retired[k].scan.phase)
  /\ UNCHANGED <<disk, events, edits, graphs, dependencyMap, dependentMap, resolver,
                 initialized, initPromise, promises, scan, scanCount, pipes,
                 lastNote, hist, retired, created>>

(***************************************************************************)
(* The environment: the disk and the file watcher.                         *)
(***************************************************************************)
Event(kind, f) == [kind |-> kind, file |-> f]

WriteFile(f, content) ==
  /\ edits < MaxEdits
  /\ content # disk[f]
  /\ disk' = [disk EXCEPT ![f] = content]
  /\ events' = Append(events, Event(IF disk[f].exists THEN "change" ELSE "create", f))
  /\ edits' = edits + 1
  /\ last' = NoLast
  /\ UNCHANGED <<graphs, dependencyMap, dependentMap, resolver, initialized,
                 initPromise, promises, scan, scanCount, pipes, callers, lastNote, hist>>

DeleteFile(f) ==
  /\ edits < MaxEdits
  /\ disk[f].exists
  /\ disk' = [disk EXCEPT ![f] = Absent]
  /\ events' = Append(events, Event("delete", f))
  /\ edits' = edits + 1
  /\ hist' = hist \cup {"unlink"}
  /\ last' = NoLast
  /\ UNCHANGED <<graphs, dependencyMap, dependentMap, resolver, initialized,
                 initPromise, promises, scan, scanCount, pipes, callers, lastNote>>

(***************************************************************************)
(* Incremental Update Coordinator: the watcher callbacks of                *)
(* DepService.setupFileWatcher.                                            *)
(***************************************************************************)
NoNote == [kind |-> "none", content |-> Absent]

\* faulty variant: only the registry is consulted
NotReady_graphOnly == Root \notin graphs

\* DepService lines 141-142 and 157-158: !graph || !graph.isInitialized()
NotReady == Root \notin graphs \/ ~initialized

\* handleFileChange (lines 134-148), for onDidChange and onDidCreate
HandleFileChange ==
  /\ events # <<>>
  /\ Head(events).kind \in {"change", "create"}
  /\ events' = Tail(events)
  /\ LET f == Head(events).file
     IN IF NotReady
        THEN /\ last' = LastOp("drop", f)
             /\ UNCHANGED <<dependencyMap, dependentMap, pipes, hist, lastNote>>
        ELSE /\ Install(StartProcess(Now, f, "inc", 0))
             /\ lastNote' = [lastNote EXCEPT ![f] =
                   IF disk[f].exists THEN [kind |-> "change", content |-> disk[f]]
                   ELSE [kind |-> "delete", content |-> Absent]]
             /\ last' = IF disk[f].exists THEN NoLast ELSE LastOp("removeFile", f)
  /\ UNCHANGED <<disk, edits, graphs, resolver, initialized, initPromise, promises,
                 scan, scanCount, callers>>

\* handleFileDelete (lines 150-164)
HandleFileDelete ==
  /\ events # <<>>
  /\ Head(events).kind = "delete"
  /\ events' = Tail(events)
  /\ LET f == Head(events).file
     IN IF NotReady
        THEN /\ last' = LastOp("drop", f)
             /\ UNCHANGED <<dependencyMap, dependentMap, pipes, hist, lastNote>>
        ELSE /\ Install(World(removeFile(Graph(dependencyMap, dependentMap), f),
                              pipes, hist \cup {"removeFile"}))
             /\ lastNote' = [lastNote EXCEPT ![f] = [kind |-> "delete", content |-> Absent]]
             /\ last' = LastOp("removeFile", f)
  /\ UNCHANGED <<disk, edits, graphs, resolver, initialized, initPromise, promises,
                 scan, scanCount, callers>>

(***************************************************************************)
(* TreeSitterParser (src/unnamed/part_005): grammar loading and the        *)
(* per-language last-tree cache.  A call is one extractImports call; the   *)
(* code between two of its awaits runs as one microtask, and the           *)
(* microtasks run first in first out.  A completion of I/O (Parser.init,   *)
(* a grammar load) is handled when the microtask queue is empty.           *)
(***************************************************************************)
\* the language ids of LANG_WASM_MAP the calls use
Langs == {"typescript", "javascript"}

\* texts, as sequences of UTF-16 code units: "ab", "bA" and "zzzzzzz"
tAB == <<97, 98>>
tBA == <<98, 65>>
tLong == <<122, 122, 122, 122, 122, 122, 122>>
Texts == {tAB, tBA, tLong}

\* one step of ((hash << 5) + hash + c) | 0 on a 32-bit value kept as two
\* 16-bit halves, so that no intermediate value leaves the integers of TLC
Djb2Step(h, c) ==
  LET low == h.lo * 33 + c
  IN [hi |-> (h.hi * 33 + (low \div 65536)) % 65536, lo |-> low % 65536]

RECURSIVE Djb2(_, _)
Djb2(h, content) ==
  IF content = <<>> THEN h ELSE Djb2(Djb2Step(h, Head(content)), Tail(content))

\* the signed 32-bit number the two halves stand for
ToInt32(h) == (IF h.hi >= 32768 THEN (h.hi - 65536) * 65536 ELSE h.hi * 65536) + h.lo

\* lines 179-185, starting from 5381
hashContent(content) == ToInt32(Djb2([hi |-> 0, lo |-> 5381], content))

NoTree == 0
NoLoad == 0
Task(c, step) == [call |-> c, step |-> step]
NewCall(langId, content) ==
  [lang |-> langId, text |-> content, pc |-> "init", load |-> NoLoad,
   owner |-> FALSE, parser |-> FALSE, tree |-> NoTree, outcome |-> "none"]

\* the calls waiting for load l, in the order they arrived
RECURSIVE WaitingOn(_, _, _)
WaitingOn(cs, l, c) ==
  IF c > Len(cs) THEN <<>>
  ELSE (IF cs[c].pc = "load" /\ cs[c].load = l THEN <<Task(c, "resume")>> ELSE <<>>)
       \o WaitingOn(cs, l, c + 1)

\* faulty variant: a pending load is not noticed
ParserLoadingHas_never(langId) == FALSE

\* line 101: this.parserLoading.has(langId)
ParserLoadingHas(langId) == langId \in DOMAIN parserLoading

\* getParser, lines 96-109, for call c up to its return or its await;
\* cs holds the calls and queue the microtasks that remain to run
getParser(c, cs, queue) ==
  LET langId == cs[c].lang
  IN IF langId \in parsers
     THEN [calls |-> [cs EXCEPT ![c].pc = "queued", ![c].parser = TRUE],
           microtasks |-> Append(queue, Task(c, "parse")),
           parserLoading |-> parserLoading, loads |-> loads]
     ELSE IF ParserLoadingHas(langId)
     THEN LET l == parserLoading[langId]
          IN IF loads[l].state = "pending"
             THEN [calls |-> [cs EXCEPT ![c].pc = "load", ![c].load = l],
                   microtasks |-> queue,
                   parserLoading |-> parserLoading, loads |-> loads]
             ELSE \* the promise has settled, its entry is not yet deleted
                  [calls |-> [cs EXCEPT ![c].pc = "queued", ![c].load = l],
                   microtasks |-> Append(queue, Task(c, "resume")),
                   parserLoading |-> parserLoading, loads |-> loads]
     ELSE [calls |-> [cs EXCEPT ![c].pc = "load", ![c].load = Len(loads) + 1,
                                ![c].owner = TRUE],
           microtasks |-> queue,
           parserLoading |-> MapSet(parserLoading, langId, Len(loads) + 1),
           loads |-> Append(loads, [lang |-> langId, state |-> "pending"])]

InstallParser(P) ==
  /\ calls' = P.calls
  /\ microtasks' = P.microtasks
  /\ parserLoading' = P.parserLoading
  /\ loads' = P.loads

\* extractImports (lines 187-200) is called on the object getInstance()
\* returns (debounce.ts line 230): it runs through parseWithCache (line 156)
\* into getParser (line 94) up to the first await
ExtractImports(langId, content) ==
  /\ parserInstance
  /\ Len(calls) < MaxCalls
  /\ LET c == Len(calls) + 1
         cs == Append(calls, NewCall(langId, content))
     IN IF ~parserInitialized
        THEN /\ calls' = cs
             /\ UNCHANGED <<microtasks, parserLoading, loads>>
        ELSE InstallParser(getParser(c, cs, microtasks))
  /\ UNCHANGED <<parserInstance, parserInitialized, parsers, treeCache, trees, parseLog>>

\* the calls suspended at pc, in the order they arrived, each as a task
RECURSIVE Suspended(_, _, _, _)
Suspended(cs, pc, step, c) ==
  IF c > Len(cs) THEN <<>>
  ELSE (IF cs[c].pc = pc THEN <<Task(c, step)>> ELSE <<>>)
       \o Suspended(cs, pc, step, c + 1)

\* lines 62-94: Parser.init() has completed; every call that awaits
\* this.init() sets the flag (line 86) and goes on in getParser
ParserInitDone ==
  /\ microtasks = <<>>
  /\ \E c \in 1..Len(calls) : calls[c].pc = "init"
  /\ parserInitialized' = TRUE
  /\ calls' = [c \in 1..Len(calls) |->
                 IF calls[c].pc = "init" THEN [calls[c] EXCEPT !.pc = "queued"]
                 ELSE calls[c]]
  /\ microtasks' = Suspended(calls, "init", "getParser", 1)
  /\ UNCHANGED <<parserInstance, parsers, parserLoading, loads, treeCache, trees, parseLog>>

\* line 94 has returned for the call at the head of the queue
GetParserTask ==
  /\ microtasks # <<>>
  /\ Head(microtasks).step = "getParser"
  /\ InstallParser(getParser(Head(microtasks).call, calls, Tail(microtasks)))
  /\ UNCHANGED <<parserInstance, parserInitialized, parsers, treeCache, trees, parseLog>>

\* _loadParser (lines 115-143) settles for load l: with a parser (line 135
\* has run) or, after a failed read or Language.load, with undefined
LoadSettles(l, ok) ==
  /\ microtasks = <<>>
  /\ l \in 1..Len(loads)
  /\ loads[l].state = "pending"
  /\ loads' = [loads EXCEPT ![l].state = IF ok THEN "ok" ELSE "failed"]
  /\ parsers' = IF ok THEN parsers \cup {loads[l].lang} ELSE parsers
  /\ microtasks' = WaitingOn(calls, l, 1)
  /\ calls' = [c \in 1..Len(calls) |->
                 IF calls[c].pc = "load" /\ calls[c].load = l
                 THEN [calls[c] EXCEPT !.pc = "queued"] ELSE calls[c]]
  /\ UNCHANGED <<parserInstance, parserInitialized, parserLoading, treeCache, trees, parseLog>>

\* lines 108-112 (the call that started the load) or line 102 (a call that
\* was given the pending promise): getParser returns the load's result
ResumeTask ==
  /\ microtasks # <<>>
  /\ Head(microtasks).step = "resume"
  /\ LET c == Head(microtasks).call
     IN /\ parserLoading' = IF calls[c].owner
                            THEN MapDelete(parserLoading, calls[c].lang)
                            ELSE parserLoading
        /\ calls' = [calls EXCEPT ![c].parser = (loads[calls[c].load].state = "ok")]
        /\ microtasks' = Append(Tail(microtasks), Task(c, "parse"))
  /\ UNCHANGED <<parserInstance, parserInitialized, parsers, loads, treeCache, trees, parseLog>>

\* faulty variant: the cached tree is never reused
CacheHit_never(langId, hash) == FALSE

\* line 162: cached && cached.hash === hash
CacheHit(langId, hash) == langId \in DOMAIN treeCache /\ treeCache[langId].hash = hash

\* faulty variant: the tree that is replaced is not released
ReleaseCached_keep(langId) == trees

\* lines 166-169: the tree cached for the language, if any, is deleted
ReleaseCached(langId) ==
  IF langId \in DOMAIN treeCache
  THEN [trees EXCEPT ![treeCache[langId].tree].deleted = TRUE]
  ELSE trees

\* parseWithCache, lines 157-175, for the call at the head of the queue;
\* parsed tells whether parser.parse (line 171) yields a tree
ParseTask(parsed) ==
  /\ microtasks # <<>>
  /\ Head(microtasks).step = "parse"
  /\ LET c == Head(microtasks).call
         langId == calls[c].lang
         hash == hashContent(calls[c].text)
         tree == Len(trees) + 1
         released == ReleaseCached(langId)
         Returns(t, invoked) ==
           /\ calls' = [calls EXCEPT ![c].tree = t]
           /\ parseLog' = Append(parseLog, [lang |-> langId, text |-> calls[c].text,
                                            tree |-> t, parsed |-> invoked])
     IN IF ~calls[c].parser
        THEN \* line 157
             /\ Returns(NoTree, FALSE)
             /\ UNCHANGED <<treeCache, trees>>
        ELSE IF CacheHit(langId, hash)
        THEN \* line 163
             /\ Returns(treeCache[langId].tree, FALSE)
             /\ UNCHANGED <<treeCache, trees>>
        ELSE IF parsed
        THEN \* lines 167-175
             /\ trees' = Append(released, [text |-> calls[c].text, deleted |-> FALSE])
             /\ treeCache' = MapSet(treeCache, langId, [hash |-> hash, tree |-> tree])
             /\ Returns(tree, TRUE)
        ELSE \* lines 167-171 and 175: no tree, line 173 is skipped
             /\ trees' = released
             /\ UNCHANGED treeCache
             /\ Returns(NoTree, TRUE)
  /\ microtasks' = Append(Tail(microtasks), Task(Head(microtasks).call, "query"))
  /\ UNCHANGED <<parserInstance, parserInitialized, parsers, parserLoading, loads>>

\* extractImports, lines 200-203, for the call at the head of the queue:
\* queryImports reads the tree it was handed
QueryTask ==
  /\ microtasks # <<>>
  /\ Head(microtasks).step = "query"
  /\ LET c == Head(microtasks).call
         tree == calls[c].tree
     IN calls' = [calls EXCEPT ![c] =
                    [NewCall(calls[c].lang, calls[c].text) EXCEPT
                       !.pc = "done", !.tree = tree,
                       !.outcome = IF tree = NoTree THEN "empty"
                                   ELSE IF trees[tree].deleted THEN "released"
                                   ELSE "queried"]]
  /\ microtasks' = Tail(microtasks)
  /\ UNCHANGED <<parserInstance, parserInitialized, parsers, parserLoading, loads, treeCache, trees,
                 parseLog>>

\* dispose (lines 48-60), called when the extension is deactivated: the
\* continuations that are ready have run before it
Dispose ==
  /\ parserInstance
  /\ microtasks = <<>>
  /\ trees' = [t \in 1..Len(trees) |->
                 IF \E langId \in DOMAIN treeCache : treeCache[langId].tree = t
                 THEN [trees[t] EXCEPT !.deleted = TRUE] ELSE trees[t]]
  /\ treeCache' = [x \in {} |-> NoTree]
  /\ parsers' = {}
  /\ parserLoading' = [x \in {} |-> NoLoad]
  /\ parserInitialized' = FALSE
  /\ parserInstance' = FALSE
  /\ UNCHANGED <<loads, calls, microtasks, parseLog>>

\* extension.ts line 40 has created the instance
InitParser ==
  /\ parserInstance = TRUE
  /\ parserInitialized = FALSE
  /\ parsers = {}
  /\ parserLoading = [x \in {} |-> NoLoad]
  /\ loads = <<>>
  /\ treeCache = [x \in {} |-> NoTree]
  /\ trees = <<>>
  /\ calls = <<>>
  /\ microtasks = <<>>
  /\ parseLog = <<>>

(***************************************************************************)
(* Specifications.                                                         *)
(***************************************************************************)
NoSnap == [taken |-> FALSE, G |-> Graph(EmptyMap, EmptyMap)]

\* DepService before its first call; the actions of SpecService keep these
InitService ==
  /\ retired = <<>>
  /\ created = 0
  /\ refreshes = {}
  /\ reads = {}

InitGraph ==
  /\ events = <<>>
  /\ edits = 0
  /\ graphs = {}
  /\ dependencyMap = EmptyMap
  /\ dependentMap = EmptyMap
  /\ resolver = NoResolver
  /\ initialized = FALSE
  /\ initPromise = NULL
  /\ promises = 0
  /\ scan = IdleScan
  /\ scanCount = [f \in Files |-> 0]
  /\ pipes = NoPipes
  /\ callers = [p \in PromiseIds |-> 0]
  /\ lastNote = [f \in Files |-> NoNote]
  /\ hist = {}
  /\ last = NoLast

\* a workspace of three files: a imports b and c, b imports c
InitDisk == [f \in Files |-> CASE f = 1 -> cBC [] f = 2 -> cC [] f = 3 -> cNone
                                [] OTHER -> Absent]

Init ==
  /\ disk = InitDisk
  /\ InitGraph
  /\ InitParser
  /\ InitService
  /\ snap = NoSnap

\* the parser and the store snapshot take no part in these steps
Apart == UNCHANGED <<snap, parserVars, serviceVars>>

Next ==
  \/ Apart /\ \E f \in WsFiles, content \in Contents : WriteFile(f, content)
  \/ Apart /\ \E f \in WsFiles : DeleteFile(f)
  \/ Apart /\ Query
  \/ Apart /\ InitResolverDone(cfgNoFile)
  \/ Apart /\ GlobDone
  \/ Apart /\ GlobReject
  \/ Apart /\ BatchDone
  \/ Apart /\ \E p \in Pids : ExtractDone(p)
  \/ Apart /\ \E p \in Pids : ResolveDone(p)
  \/ Apart /\ CallerResume
  \/ Apart /\ HandleFileChange
  \/ Apart /\ HandleFileDelete

Spec == Init /\ [][Next]_vars

\* a workspace in which every file of the universe exists and nothing changes
\* during the scan: more files than one batch holds
InitScan ==
  /\ disk = [f \in Files |-> IF f = 1 THEN cB ELSE cNone]
  /\ InitGraph
  /\ InitParser
  /\ InitService
  /\ snap = NoSnap

NextScan ==
  \/ Apart /\ Query
  \/ Apart /\ InitResolverDone(cfgNoFile)
  \/ Apart /\ GlobDone
  \/ Apart /\ BatchDone
  \/ Apart /\ \E p \in Pids : ExtractDone(p)
  \/ Apart /\ \E p \in Pids : ResolveDone(p)
  \/ Apart /\ CallerResume

SpecScan == InitScan /\ [][NextScan]_vars

\* line 177: the globs settle and the scan goes on.  GlobDone is enabled
\* exactly while the scan is in the phase "glob" and every GlobDone step leaves
\* that phase, so its weak fairness is the recurrence of the other phases
GlobSettles == []<>(scan.phase # "glob")

\* the event loop: a continuation whose awaited promise has settled is run,
\* and the resolver set-up, the globs, every extractImports and every
\* resolvePath that was started settle
FairScan ==
  /\ WF_vars(Apart /\ InitResolverDone(cfgNoFile))
  /\ GlobSettles
  /\ WF_vars(Apart /\ BatchDone)
  /\ WF_vars(Apart /\ \E p \in Pids : ExtractDone(p))
  /\ WF_vars(Apart /\ \E p \in Pids : ResolveDone(p))
  /\ WF_vars(Apart /\ CallerResume)

SpecScanFair == SpecScan /\ FairScan

\* the scan of the three-file workspace under every outcome of loading the
\* build configuration
NextResolver ==
  \/ Apart /\ Query
  \/ Apart /\ \E cfg \in ConfigOutcomes : InitResolverDone(cfg)
  \/ Apart /\ GlobDone
  \/ Apart /\ BatchDone
  \/ Apart /\ \E p \in Pids : ExtractDone(p)
  \/ Apart /\ \E p \in Pids : ResolveDone(p)
  \/ Apart /\ CallerResume

SpecResolver == Init /\ [][NextResolver]_vars

(***************************************************************************)
(* DepService with forced re-scans: queries and updateActiveWorkspaceDepMap *)
(* calls over a quiet workspace of two files, the first importing the      *)
(* second.                                                                 *)
(***************************************************************************)
ApartService == UNCHANGED <<snap, parserVars>>

InitServiceSpec ==
  /\ disk = [f \in Files |-> CASE f = 1 -> cB [] f = 2 -> cNone [] OTHER -> Absent]
  /\ InitGraph
  /\ InitParser
  /\ InitService
  /\ snap = NoSnap

NextService ==
  \/ ApartService /\ ServiceQuery
  \/ ApartService /\ Refresh
  \/ NoneReady /\ Apart /\ InitResolverDone(cfgNoFile)
  \/ NoneReady /\ Apart /\ GlobDone
  \/ NoneReady /\ Apart /\ GlobReject
  \/ NoneReady /\ Apart /\ BatchDone
  \/ NoneReady /\ Apart /\ (\E p \in Pids : ExtractDone(p))
  \/ NoneReady /\ Apart /\ (\E p \in Pids : ResolveDone(p))
  \/ ApartService /\ ServiceCallerResume
  \/ NoneReady /\ ApartService
       /\ (\E k \in 1..Len(retired) : RetiredInitResolverDone(k, cfgNoFile))
  \/ NoneReady /\ ApartService /\ (\E k \in 1..Len(retired) : RetiredGlobDone(k))
  \/ NoneReady /\ ApartService /\ (\E k \in 1..Len(retired) : RetiredGlobReject(k))
  \/ NoneReady /\ ApartService /\ (\E k \in 1..Len(retired) : RetiredBatchDone(k))
  \/ NoneReady /\ ApartService
       /\ (\E k \in 1..Len(retired) : \E p \in Pids : RetiredExtractDone(k, p))
  \/ NoneReady /\ ApartService
       /\ (\E k \in 1..Len(retired) : \E p \in Pids : RetiredResolveDone(k, p))
  \/ ApartService /\ (\E k \in 1..Len(retired) : RetiredCallerResume(k))

SpecService == InitServiceSpec /\ [][NextService]_vars

\* the parser alone: the graph takes no part in these steps
ApartParser == UNCHANGED <<graphVars, snap, serviceVars>>

InitParserSpec ==
  /\ disk = InitDisk
  /\ InitGraph
  /\ InitParser
  /\ InitService
  /\ snap = NoSnap

NextParser ==
  \/ ApartParser /\ \E langId \in Langs, content \in Texts : ExtractImports(langId, content)
  \/ ApartParser /\ ParserInitDone
  \/ ApartParser /\ GetParserTask
  \/ ApartParser /\ \E l \in 1..MaxCalls, ok \in BOOLEAN : LoadSettles(l, ok)
  \/ ApartParser /\ ResumeTask
  \/ ApartParser /\ ParseTask(TRUE)
  \/ ApartParser /\ QueryTask

SpecParser == InitParserSpec /\ [][NextParser]_vars

\* the tree cache over the life of the parser object: parser.parse may yield
\* no tree and the extension may be deactivated; the calls are for two
\* languages and two texts with different hashes
CacheInputs == {<<"typescript", tAB>>, <<"typescript", tLong>>, <<"javascript", tAB>>}

NextCache ==
  \/ ApartParser /\ \E input \in CacheInputs : ExtractImports(input[1], input[2])
  \/ ApartParser /\ ParserInitDone
  \/ ApartParser /\ GetParserTask
  \/ ApartParser /\ \E l \in 1..MaxCalls, ok \in BOOLEAN : LoadSettles(l, ok)
  \/ ApartParser /\ ResumeTask
  \/ ApartParser /\ \E parsed \in BOOLEAN : ParseTask(parsed)
  \/ ApartParser /\ QueryTask
  \/ ApartParser /\ Dispose

SpecCache == InitParserSpec /\ [][NextCache]_vars

\* an initialized graph with a file that was saved twice: both change
\* notifications are still to be handled, and nothing else happens.  The
\* stores are the one the scan of InitDisk builds, the one two overlapping
\* processFile calls of file 1 leave behind, and the one left by deleting
\* file 2.
Scanned ==
  [G |-> Graph(1 :> {2, 3} @@ 2 :> {3} @@ 3 :> {}, 2 :> {1} @@ 3 :> {1, 2}),
   disk |-> InitDisk, hist |-> {}]
Merged ==
  [G |-> Graph(1 :> {3} @@ 2 :> {3} @@ 3 :> {}, 2 :> {1} @@ 3 :> {1, 2}),
   disk |-> [InitDisk EXCEPT ![1] = cPkgC], hist |-> {"overlap"}]
AfterDelete ==
  [G |-> Graph(1 :> {2, 3} @@ 3 :> {}, 3 :> {1}),
   disk |-> [InitDisk EXCEPT ![2] = Absent], hist |-> {"removeFile", "unlink"}]
StartStores == {Scanned, Merged, AfterDelete}

\* what the saved file holds when the notifications are handled
SavedContents == {cNone, cB, cC, cBC, cPkgC, cBad, Absent}

InitTwice ==
  \E S \in StartStores, A \in 1..3, content \in SavedContents :
    /\ disk = [S.disk EXCEPT ![A] = content]
    /\ events = <<Event("change", A), Event("change", A)>>
    /\ edits = MaxEdits
    /\ graphs = {Root}
    /\ dependencyMap = S.G.dependencyMap
    /\ dependentMap = S.G.dependentMap
    /\ resolver = createResolver(cfgNoFile)
    /\ initialized = TRUE
    /\ initPromise = NULL
    /\ promises = 1
    /\ scan = [phase |-> "complete", allFiles |-> <<1, 2, 3>>, i |-> 1 + CONCURRENCY,
               promise |-> 1]
    /\ scanCount = [f \in Files |-> IF f \in 1..3 THEN 1 ELSE 0]
    /\ pipes = NoPipes
    /\ callers = [p \in PromiseIds |-> 0]
    /\ lastNote = [f \in Files |-> NoNote]
    /\ hist = S.hist
    /\ last = NoLast
    /\ snap = NoSnap
    /\ InitParser
    /\ InitService

\* the run that ends in this step is the first of the two: keep what it leaves
TakeSnap ==
  snap' = IF ~snap.taken /\ pipes' = NoPipes /\ last'.op # "none"
          THEN [taken |-> TRUE, G |-> Graph(dependencyMap', dependentMap')]
          ELSE snap

\* the second run starts when the first has completed
InARow == pipes = NoPipes

NextTwice ==
  \/ UNCHANGED <<parserVars, serviceVars>> /\ InARow /\ HandleFileChange /\ TakeSnap
  \/ UNCHANGED <<parserVars, serviceVars>> /\ (\E p \in Pids : ExtractDone(p)) /\ TakeSnap
  \/ UNCHANGED <<parserVars, serviceVars>> /\ (\E p \in Pids : ResolveDone(p)) /\ TakeSnap

SpecTwice == InitTwice /\ [][NextTwice]_vars

(***************************************************************************)
(* Properties.                                                             *)
(***************************************************************************)
\* I1: B is in dependencyMap[A] iff A is in dependentMap[B]
Consistent ==
  \A A \in Files, B \in Files :
    (B \in MapGet(dependencyMap, A)) <=> (A \in MapGet(dependentMap, B))

\* the edges of f as the reverse map records them
ReverseEdges(f) == DependentsHolding(dependentMap, f)

\* C1: after any sequence of processFile calls that do not overlap on a file
\* and read their file, and of removeFileEdges runs (a processFile whose
\* extraction throws), with no removeFile, B is in dependencyMap[A] iff A is in
\* dependentMap[B].
C1_Bidirectional ==
  (hist \cap {"overlap", "removeFile"} = {}) => Consistent

C1_Witness ==
  /\ hist = {}
  /\ initialized
  /\ last.op = "commit"
  /\ last.oldHas
  /\ last.oldDeps # MapGet(dependencyMap, last.file)
  /\ MapGet(dependencyMap, last.file) # {}

\* C2: in every reachable state, whatever the interleaving of processFile and
\* removeFile calls, B is in dependencyMap[A] iff A is in dependentMap[B].
C2_AlwaysConsistent == Consistent

\* C3: when two processFile calls for different snapshots of one file have
\* overlapped and both have finished, the edges of the file in both maps are
\* the resolved imports of one of the two snapshots.
C3_OneSnapshot ==
  (/\ last.op = "commit"
   /\ last.peer = "finished"
   /\ last.peerContent # last.content
   /\ ~last.peerContent.crash
   /\ hist \cap {"removeFile", "unlink"} = {}
   /\ OnFile(pipes, last.file) = {})
  => /\ ReverseEdges(last.file) = MapGet(dependencyMap, last.file)
     /\ MapGet(dependencyMap, last.file) \in
          {ResolveAll(last.content.imports), ResolveAll(last.peerContent.imports)}

\* C4: once no work is in flight for a file, its edges are those of the last
\* notification accepted for it: the resolved imports of the content read
\* for a change or create, no entry in either map after a delete.
C4_LastWriteWins ==
  \A f \in Files :
    (lastNote[f].kind # "none" /\ OnFile(pipes, f) = {} /\ ~lastNote[f].content.crash)
    => IF lastNote[f].kind = "delete"
       THEN f \notin DOMAIN dependencyMap /\ ReverseEdges(f) = {}
       ELSE /\ f \in DOMAIN dependencyMap
            /\ dependencyMap[f] \subseteq ResolveAll(lastNote[f].content.imports)
            /\ "unlink" \notin hist =>
                 dependencyMap[f] = ResolveAll(lastNote[f].content.imports)

\* C5: a processFile that ran alone on its file and completed leaves
\* dependencyMap[file] within the files the imports of the content it read
\* lead to (all of them when no file was ever deleted), the file in
\* dependentMap[B] for each B of dependencyMap[file], and the file absent
\* from dependentMap[C] for every former dependency C it no longer has.
C5_NoStaleEdge ==
  (last.op = "commit" /\ last.peer = "none")
  => LET f == last.file
         R == ResolveAll(last.content.imports)
     IN /\ f \in DOMAIN dependencyMap
        /\ dependencyMap[f] \subseteq R
        /\ "unlink" \notin hist => dependencyMap[f] = R
        /\ \A b \in dependencyMap[f] : f \in MapGet(dependentMap, b)
        /\ \A c \in last.oldDeps \ dependencyMap[f] : f \notin MapGet(dependentMap, c)

C5_Witness ==
  /\ last.op = "commit"
  /\ last.peer = "none"
  /\ last.file = 1
  /\ last.oldDeps = {2, 3}
  /\ ResolveAll(last.content.imports) = {2}
  /\ dependencyMap[1] = {2}
  /\ 1 \notin MapGet(dependentMap, 3)

\* C6: a processFile whose extraction throws leaves dependencyMap[file] and
\* the dependentMap sets holding the file as they were before the call.
C6_KeepsEdgesOnThrow ==
  (last.op = "threw" /\ last.peer = "none")
  => /\ (last.file \in DOMAIN dependencyMap) = last.oldHas
     /\ MapGet(dependencyMap, last.file) = last.oldDeps
     /\ ReverseEdges(last.file) = last.oldIn

\* C7: initialize calls made while the bulk scan is in progress all get the
\* same promise, _doInitialize runs once and the scan calls processFile once
\* for each matched file.
C7_SharedScan ==
  /\ promises <= 1
  /\ \A p \in Waiting : p = scan.promise
  /\ ~initialized => \A p \in Waiting : p = initPromise
  /\ \A f \in Files : scanCount[f] <= 1
  /\ scan.phase = "complete" =>
       \A f \in Files : scanCount[f] = (IF f \in SeqRange(scan.allFiles) THEN 1 ELSE 0)

C7_Witness ==
  /\ initPromise # NULL
  /\ callers[initPromise] >= 2
  /\ scan.phase = "batch"
  /\ ScanInFlight(pipes) # {}
  /\ promises = 1

\* the scan session: 0 not started, 1 in progress, 2 complete
SessionRank == IF initialized THEN 2 ELSE IF initPromise # NULL THEN 1 ELSE 0

ScanAllDone ==
  /\ scan.phase = "complete"
  /\ scan.i > Len(scan.allFiles)
  /\ ScanInFlight(pipes) = {}
  /\ \A f \in SeqRange(scan.allFiles) : scanCount[f] >= 1

\* C8: the scan session only moves forward; isInitialized() turns true
\* exactly when the scan has processed every batch, initPromise is then
\* NULL, and isInitialized() never turns false again.
C8_Session ==
  [][/\ SessionRank' >= SessionRank
     /\ initialized' <=> scan'.phase = "complete"
     /\ initialized' => (initPromise' = NULL /\ ScanAllDone')]_vars

C8_Witness ==
  /\ initialized
  /\ initPromise = NULL
  /\ promises = 1
  /\ Len(scan.allFiles) > CONCURRENCY
  /\ \A f \in Files : scanCount[f] = 1

\* C9: at most CONCURRENCY processFile calls of the bulk scan are in flight,
\* and they all belong to the batch the loop is waiting for.
C9_Bounded ==
  /\ Cardinality(ScanInFlight(pipes)) <= CONCURRENCY
  /\ \A p \in ScanInFlight(pipes) : pipes[p].batch = scan.i

C9_Witness ==
  /\ Cardinality(ScanInFlight(pipes)) = CONCURRENCY
  /\ Len(scan.allFiles) > CONCURRENCY
  /\ scan.i = 1

\* C10: a notification handled while the workspace has no graph or its graph
\* is not initialized changes neither map and starts no processFile; no
\* incremental processFile is in flight before the scan completes.
C10_DroppedIsNoOp ==
  [][/\ (Len(events') < Len(events) /\ (Root \notin graphs \/ ~initialized))
        => /\ dependencyMap' = dependencyMap
           /\ dependentMap' = dependentMap
           /\ pipes' = pipes
           /\ hist' = hist
           /\ last'.op = "drop"
     /\ ~initialized' => (IncInFlight(pipes') = {} /\ last'.op # "removeFile")]_vars

C10_Witness ==
  /\ last.op = "drop"
  /\ scan.phase = "batch"
  /\ ScanInFlight(pipes) # {}
  /\ disk[last.file] # (IF last.file = 1 THEN cBC ELSE cC)

\* C11: a file whose content changed while every notification for it was
\* dropped has, once the scan has completed, the resolved imports of its
\* final content as dependencyMap[file].
C11_ScanSeesFinalContent ==
  \A f \in WsFiles :
    (/\ initialized
     /\ disk[f] # InitDisk[f]
     /\ lastNote[f].kind = "none"
     /\ \A k \in 1..Len(events) : events[k].file # f
     /\ disk[f].exists
     /\ ~disk[f].crash
     /\ "unlink" \notin hist)
    => /\ f \in DOMAIN dependencyMap
       /\ dependencyMap[f] = ResolveAll(disk[f].imports)

\* C12: removeFile(F) removes dependencyMap[F], F from dependentMap[B] for
\* every B of dependencyMap[F], and dependentMap[F]; dependencyMap[X] stays as
\* it was for every other X, so F has no dependents and a file that imported
\* F still lists it.
C12_RemoveFileFrame ==
  [][last'.op = "removeFile" =>
       /\ last'.file \notin DOMAIN dependencyMap'
       /\ \A B \in MapGet(dependencyMap, last'.file) :
            last'.file \notin MapGet(dependentMap', B)
       /\ last'.file \notin DOMAIN dependentMap'
       /\ MapGet(dependentMap', last'.file) = {}
       /\ \A X \in Files \ {last'.file} :
            /\ (X \in DOMAIN dependencyMap') = (X \in DOMAIN dependencyMap)
            /\ MapGet(dependencyMap', X) = MapGet(dependencyMap, X)
            /\ last'.file \in MapGet(dependencyMap, X)
                 => last'.file \in MapGet(dependencyMap', X)]_vars

C12_Witness ==
  /\ initialized
  /\ last.op = "removeFile"
  /\ last.file = 2
  /\ lastNote[2].kind = "delete"
  /\ getDependents(2) = {}
  /\ 2 \in getDependencies(1)
  /\ 2 \notin DOMAIN dependencyMap

\* C13: a processFile(F) whose read fails leaves both maps as removeFile(F)
\* leaves them from the same state, and starts nothing.
C13_ReadFailureIsRemoveFile ==
  [][(/\ Len(events') < Len(events)
      /\ Head(events).kind \in {"change", "create"}
      /\ Root \in graphs
      /\ initialized
      /\ ~disk[Head(events).file].exists)
     => /\ Graph(dependencyMap', dependentMap')
             = removeFile(Graph(dependencyMap, dependentMap), Head(events).file)
        /\ pipes' = pipes]_vars

C13_Witness ==
  /\ last.op = "removeFile"
  /\ ~disk[last.file].exists
  /\ events = <<Event("delete", last.file)>>
  /\ last.file \notin DOMAIN dependencyMap
  /\ \E X \in Files : last.file \in getDependencies(X)

\* C14: when processFile(A) has run to completion twice in a row on the
\* same content, with the same resolver results, both maps are what the
\* first run left.
C14_Idempotent ==
  (snap.taken /\ events = <<>> /\ pipes = NoPipes)
  => Graph(dependencyMap, dependentMap) = snap.G

C14_Witness ==
  /\ snap.taken
  /\ events = <<>>
  /\ pipes = NoPipes
  /\ last.op = "commit"
  /\ last.oldHas
  /\ last.oldDeps = dependencyMap[last.file]
  /\ dependencyMap[last.file] # {}
  /\ Graph(dependencyMap, dependentMap) \notin {S.G : S \in StartStores}

\* C15: every tree parseWithCache returns was parsed from the text of the
\* call it is returned to.
C15_OwnTree ==
  \A k \in 1..Len(parseLog) :
    parseLog[k].tree # NoTree => trees[parseLog[k].tree].text = parseLog[k].text

\* C16: a tree handed to a call is not released before the call has queried
\* it, and no call queries a released tree.
C16_NotReleasedBeforeQuery ==
  \A c \in 1..Len(calls) :
    /\ (calls[c].tree # NoTree /\ calls[c].pc # "done") => ~trees[calls[c].tree].deleted
    /\ calls[c].outcome # "released"

\* the loads started for a language
LoadsOf(langId) == {l \in 1..Len(loads) : loads[l].lang = langId}

C18_SecondIsCacheHit ==
  \A j \in 1..Len(parseLog) :
    LET before == {i \in 1..(j - 1) : parseLog[i].lang = parseLog[j].lang}
    IN before # {} =>
         LET i == CHOOSE x \in before : \A y \in before : y <= x
         IN (parseLog[i].text = parseLog[j].text /\ parseLog[i].tree # NoTree)
            => (~parseLog[j].parsed /\ parseLog[j].tree = parseLog[i].tree)

C18_Witness ==
  /\ Len(parseLog) = 2
  /\ parseLog[1].lang = parseLog[2].lang
  /\ parseLog[1].text = parseLog[2].text
  /\ parseLog[1].parsed
  /\ ~parseLog[2].parsed
  /\ parseLog[2].tree = parseLog[1].tree
  /\ Len(trees) = 1
  /\ \A c \in 1..Len(calls) : calls[c].pc = "done" => calls[c].outcome = "queried"
  /\ \E c \in 1..Len(calls) : calls[c].pc = "done"

C20_IncrementalFrame ==
  [][initialized =>
       LET A == IF Len(events') < Len(events) THEN Head(events).file ELSE last'.file
       IN /\ \A X \in Files \ {A} :
               /\ (X \in DOMAIN dependencyMap') = (X \in DOMAIN dependencyMap)
               /\ MapGet(dependencyMap', X) = MapGet(dependencyMap, X)
               /\ \A B \in Files :
                    (B # A \/ last'.op # "removeFile")
                    => ((X \in MapGet(dependentMap', B)) = (X \in MapGet(dependentMap, B)))
          /\ scan' = scan
          /\ promises' = promises
          /\ initPromise' = initPromise
          /\ initialized'
          /\ ScanInFlight(pipes') = {}]_vars

C20_Witness ==
  /\ initialized
  /\ last.op = "commit"
  /\ last.file = 1
  /\ last.oldDeps = {2, 3}
  /\ dependencyMap[1] = {3}
  /\ MapGet(dependencyMap, 2) = {3}
  /\ MapGet(dependentMap, 3) = {1, 2}
  /\ hist = {}

\* C25: no key of dependentMap has an empty set: taking the last dependent
\* out of the set of B deletes the entry of B.
C25_NoEmptySet ==
  \A B \in DOMAIN dependentMap : dependentMap[B] # {}

\* a processFile of a.ts is suspended: its removeFileEdges took a.ts, the only
\* dependent of b.ts, out of the reverse map, and left c.ts with b.ts alone
C25_Witness ==
  /\ initialized
  /\ \E p \in DOMAIN pipes : pipes[p].file = 1 /\ pipes[p].oldDeps = {2, 3}
  /\ 2 \notin DOMAIN dependentMap
  /\ 3 \in DOMAIN dependentMap
  /\ dependentMap[3] = {2}

\* C28: initPromise is set only while _doInitialize is running: once the scan
\* has ended, by completing or by rejecting, initPromise is null again.
C28_ClearedWhenScanEnds ==
  initPromise # NULL => scan.phase \in {"resolver", "glob", "batch"}

\* C30: when every pipeline that was started finishes, a bulk scan that has
\* been started completes: every matched file is processed, isInitialized()
\* becomes true, the shared promise is cleared and every caller that waits
\* for it is released.
C30_ScanCompletes ==
  /\ (initPromise # NULL) ~>
       (/\ initialized
        /\ initPromise = NULL
        /\ scan.phase = "complete"
        /\ pipes = NoPipes
        /\ \A f \in SeqRange(scan.allFiles) : scanCount[f] >= 1)
  /\ (Waiting # {}) ~> (Waiting = {} /\ initialized)

\* the second batch has been processed and two callers that waited for the
\* scan have been released
C30_Witness ==
  /\ initialized
  /\ scan.phase = "complete"
  /\ Len(scan.allFiles) > CONCURRENCY
  /\ \A f \in SeqRange(scan.allFiles) : scanCount[f] = 1
  /\ Waiting = {}
  /\ hist = {}
  /\ dependencyMap[1] = {2}

\* C22: once a load of the grammar of a language has failed, no other load of
\* that language is started and no call is given a parser for it.
C22_NoRetryAfterFailure ==
  /\ \A l1 \in 1..Len(loads), l2 \in 1..Len(loads) :
       (l1 < l2 /\ loads[l1].lang = loads[l2].lang) => loads[l1].state # "failed"
  /\ \A c \in 1..Len(calls) :
       calls[c].parser => \A l \in LoadsOf(calls[c].lang) : loads[l].state # "failed"

\* the trees parseWithCache has returned for a language and that have not
\* been released
LiveTrees(langId) ==
  {t \in 1..Len(trees) :
     /\ ~trees[t].deleted
     /\ \E k \in 1..Len(parseLog) : parseLog[k].tree = t /\ parseLog[k].lang = langId}

\* C26: for every language at most one tree that parseWithCache produced is
\* unreleased, and it is the tree treeCache holds for the language: a miss
\* releases the cached tree before it stores the new one.
C26_SingleSlot ==
  \A langId \in Langs :
    /\ Cardinality(LiveTrees(langId)) <= 1
    /\ \A t \in LiveTrees(langId) :
         langId \in DOMAIN treeCache /\ treeCache[langId].tree = t

\* a miss has replaced the tree of one language while the other language
\* keeps its own
C26_Witness ==
  /\ Len(trees) = 3
  /\ trees[1].deleted
  /\ ~trees[2].deleted
  /\ ~trees[3].deleted
  /\ DOMAIN treeCache = Langs
  /\ treeCache["typescript"].tree = 2
  /\ treeCache["javascript"].tree = 3

\* C27: every tree treeCache holds is unreleased.
C27_CacheHoldsLiveTree ==
  \A langId \in DOMAIN treeCache : ~trees[treeCache[langId].tree].deleted

\* the outcomes of loading the build configuration that give no alias
NoAliasOutcomes == ConfigOutcomes \ {cfgAlias}

\* C23: when loading or calling the build-config function throws, or it
\* yields no alias or an empty alias set, the resolver is created with the
\* default alias table, the scan goes on past initResolver and ends with
\* isInitialized() true.
C23_DefaultAlias ==
  /\ (resolver.set /\ resolver.config \in NoAliasOutcomes)
       => resolver.alias = DefaultAlias
  /\ scan.phase \in {"glob", "batch", "complete"} => resolver.set
  /\ scan.phase = "complete" => initialized

\* the build-config function threw and the scan has completed
C23_Witness ==
  /\ resolver.config = cfgCallThrows
  /\ resolver.alias = DefaultAlias
  /\ scan.phase = "complete"
  /\ initialized
  /\ dependencyMap = Scanned.G.dependencyMap


\* C24: DepService holds at most one graph per workspace root, made by the
\* first query or forced re-scan and by no later query: the registry is empty
\* until a graph is made, every graph has exactly one bulk scan, every graph
\* after the first was made by a forced re-scan, and the callers that wait
\* while the registry's graph is not initialized all await the promise of
\* its one scan.
C24_OneGraphPerRoot ==
  /\ graphs \subseteq {Root}
  /\ (created = 0) <=> (Root \notin graphs)
  /\ promises = created
  /\ created > 0 => scan.promise = created
  /\ \A k \in 1..Len(retired) :
       retired[k].id < created /\ retired[k].scan.promise = retired[k].id
  /\ \A id \in 2..created : \E r \in refreshes : r.new = id
  /\ \A p \in Waiting :
       p = scan.promise \/ \E k \in 1..Len(retired) : retired[k].scan.promise = p

\* two queries wait for the one scan of the graph the first of them made
C24_Witness ==
  /\ created = 1
  /\ refreshes = {}
  /\ ~initialized
  /\ scan.phase = "batch"
  /\ callers[scan.promise] = 2

\* C29: every read a query makes is of a graph whose isInitialized() is true,
\* whether the query found the graph ready or waited for its scan, and also
\* while a forced re-scan is running.
C29_QueriesReadInitialized == \A r \in reads : r.initialized

\* a query that waited for the scan of a graph reads it while the forced
\* re-scan that has replaced that graph is still running
C29_Witness ==
  \E r \in reads : r.rescan /\ r.initialized /\ r.id < created

\* C21 as stated: a forced re-scan makes a new graph, the maps of a replaced
\* graph that had no work in flight stay as they were, and when the call
\* returns the registry holds the graph the call made, initialized.
C21_ReturnsRegistryEntry ==
  /\ \A r \in refreshes :
       /\ r.new # r.old
       /\ r.state = "returned" => r.entry = r.new /\ r.ready
  /\ \A k \in 1..Len(retired) :
       ~retired[k].busy => retired[k].G = retired[k].atDiscard

\* C21: a forced re-scan makes a new graph, the maps of a replaced graph that
\* had no work in flight stay as they were, and when the call returns the
\* graph the call made is initialized and the registry holds that graph or
\* the graph of a later forced re-scan.
C21_ReturnsOwnGraph ==
  /\ \A r \in refreshes :
       /\ r.new # r.old
       /\ r.state = "returned" =>
            /\ r.own
            /\ r.entry >= r.new
            /\ r.entry # r.new => \E later \in refreshes : later.new = r.entry
  /\ \A k \in 1..Len(retired) :
       ~retired[k].busy => retired[k].G = retired[k].atDiscard

\* a forced re-scan of an initialized graph has returned: the registry holds
\* the new graph, initialized, and the old graph still has its maps
C21_Witness ==
  \E r \in refreshes :
    /\ r.state = "returned" /\ r.entry = r.new /\ r.ready
    /\ \E k \in 1..Len(retired) :
         /\ retired[k].id = r.old
         /\ ~retired[k].busy
         /\ retired[k].G.dependencyMap # EmptyMap

====
